---- MODULE Spec2Model ----
(***************************************************************************)
(* Model of mlx-llm.                                                       *)
(*                                                                         *)
(* server/app.py: the two-lock access arbiter get_llama_model, the request *)
(* handler chat_completions with its single-shot and streamed token loops  *)
(* over generate().                                                        *)
(* llm/llama.py: construction of the attention layers from ModelArgs, the  *)
(* grouped-query head expansion and the key/value cache bookkeeping of     *)
(* Attention.__call__ and Llama.__call__.                                  *)
(*                                                                         *)
(* Spec / FairSpec  N concurrent requests going through the arbiter        *)
(* ServeSpec        one generation session driven by a consumer loop       *)
(* CtorSpec         Llama(args) for the ModelArgs of a bounded set         *)
(* FwdSpec          one Llama.__call__ on a cache of a bounded set         *)
(* RepeatSpec       the head expansion on tensors of bounded shapes        *)
(***************************************************************************)
EXTENDS Integers, Sequences, FiniteSets, TLC

(* ------------------------------ bounds --------------------------------- *)
\* concurrent requests and the max_tokens they ask for (their prompts are one
\* token long: a request makes at least one forward pass, and more with
\* max_tokens above 0)
NumRequests == 2
ArbMaxTokens == 0
\* the single session of ServeSpec
MaxPrompt == 3
MaxTokens == 3
\* the decoder stack
NumLayers == 2
MaxCacheLen == 3
\* ModelArgs of CtorSpec
MaxHidden == 8
MaxHeads == 4
\* tensors of RepeatSpec
MaxKVHeads == 3
MaxRepeats == 3
MaxHeadDim == 2

Requests == 1..NumRequests
Layers == 1..NumLayers
\* tokenizer.eos_token_id: the id the consumer loops compare against
eos_token_id == 1
\* what sample() can return, as the consumer loops see it: the stop id, or
\* 0 standing for any other token id
Vocab == {0, eos_token_id}

VARIABLES
    llama_outer_lock,    \* app.py:25, TRUE when locked
    llama_inner_lock,    \* app.py:26, TRUE when locked
    pc,                  \* per request: position inside get_llama_model
    release_outer_lock,  \* per request: the local flag of get_llama_model
    handler,             \* per request: chat_completions and its generate()
    outer_order,         \* history: requests in order of acquiring the outer lock
    inner_order,         \* history: requests in order of acquiring the inner lock
    outer_releases,      \* history: per request, releases of the outer lock
    inner_releases,      \* history: per request, releases of the inner lock
    sess,                \* ServeSpec: the session
    ctor,                \* CtorSpec: the ModelArgs and what Llama(args) gave
    fwd,                 \* FwdSpec: the call of Llama.__call__ and its outcome
    rep                  \* RepeatSpec: the tensor and its expansion

lockVars == <<llama_outer_lock, llama_inner_lock, pc, release_outer_lock>>
histVars == <<outer_order, inner_order, outer_releases, inner_releases>>
arbVars == <<lockVars, handler, histVars>>
vars == <<arbVars, sess, ctor, fwd, rep>>

(* ===================== llm/llama.py: construction ====================== *)
\* Attention.__init__, lines 56-61: the two floor divisions; Python raises
\* ZeroDivisionError on a zero divisor, nothing else is checked
AttentionInit(args) ==
    IF args.num_key_value_heads = 0 \/ args.num_attention_heads = 0
    THEN [built |-> FALSE, repeats |-> 0, head_dim |-> 0]
    ELSE [built |-> TRUE,
          repeats |-> args.num_attention_heads \div args.num_key_value_heads,
          head_dim |-> args.hidden_size \div args.num_attention_heads]

\* Llama.__init__: one TransformerBlock, hence one Attention, per layer
LlamaInit(args) == AttentionInit(args)

(* ======================= llm/llama.py: the cache ======================= *)
\* a per-layer cache slot: None, or (k, v) with k.shape[2] = len
None == [some |-> FALSE, len |-> 0]
KV(n) == [some |-> TRUE, len |-> n]

\* Attention.__call__, lines 104-113: the sequence length of the returned
\* (k, v) for an input of L positions and a prior cache slot
AttentionKeysNoConcat(L, c) == L
AttentionKeys(L, c) == IF c.some THEN c.len + L ELSE L

\* lines 115-118: scores has shape [B, H, L, keys]; the additive mask, built
\* by Llama.__call__ only when T > 1 (maskT = 0 stands for None), has shape
\* [T, T] and must broadcast against scores
AttentionCall(L, maskT, c) ==
    LET keys == AttentionKeys(L, c)
    IN  [ok |-> (maskT = 0) \/ (keys = maskT), entry |-> KV(keys)]

\* Llama.__call__: cache None (here <<>>) becomes [None] * len(layers);
\* every layer is called with its own slot and its slot is written back
LlamaCall(T, c) ==
    LET slots == IF c = <<>> THEN [e \in Layers |-> None] ELSE c
        maskT == IF T > 1 THEN T ELSE 0
        outs  == [e \in Layers |-> AttentionCall(T, maskT, slots[e])]
    IN  [ok |-> \A e \in Layers : outs[e].ok,
         cache |-> [e \in Layers |-> outs[e].entry]]

(* ================= server/app.py: handler and generate ================= *)
\* the locals of chat_completions (stream, max_tokens, prompt, tokens, the
\* range counter of zip) and of its generate() (y, cache); steps counts the
\* forward passes of the session
NoSession ==
    [hpc |-> "none", stream |-> FALSE, max_tokens |-> 0, prompt |-> <<>>,
     y |-> <<>>, cache |-> <<>>, n_range |-> 0, tokens |-> <<>>, steps |-> 0]

\* lines 127-135: the request body and its tokenized prompt; generate() is
\* created with y = prompt and cache = None (lines 82-83)
Enter(stream, m, P) ==
    [hpc |-> IF stream THEN "body" ELSE "loop",
     stream |-> stream, max_tokens |-> m, prompt |-> [i \in 1..P |-> 0],
     y |-> [i \in 1..P |-> 0], cache |-> <<>>, n_range |-> 0,
     tokens |-> <<>>, steps |-> 0]

\* zip(generate(...), range(body.max_tokens)): generate() is advanced first,
\* then range; the pair is dropped when range has handed out max_tokens values
ZipExhaustedLate(n, m) == n = m + 1
ZipExhausted(n, m) == n = m

\* lines 142 and 170: token == tokenizer.eos_token_id
IsStop(t) == t = eos_token_id

\* one iteration of the for loop of lines 138-161 (streamed) or 166-172
\* (single-shot): a step of generate() (lines 85-88) sampling t, the zip,
\* the stop test, the append / the emitted chunk
IterateOn(s, t) ==
    LET out == LlamaCall(Len(s.y), s.cache)
        end == IF s.stream THEN "sent" ELSE "returned"
    IN  IF ~out.ok
        THEN [s EXCEPT !.hpc = "raised", !.steps = @ + 1]
        ELSE IF ZipExhausted(s.n_range, s.max_tokens) \/ IsStop(t)
        THEN [s EXCEPT !.hpc = end, !.cache = out.cache, !.y = <<t>>,
                       !.steps = @ + 1]
        ELSE [s EXCEPT !.cache = out.cache, !.y = <<t>>, !.steps = @ + 1,
                       !.n_range = @ + 1, !.tokens = Append(@, t)]

\* lines 173-194 (the response is built and returned), the end of
\* event_generator, or an exception: the locals of the handler and of its
\* generate() are gone once the loop is left
Leave(s) ==
    IF s.hpc \in {"returned", "raised", "sent", "abandoned"}
    THEN [NoSession EXCEPT !.hpc = s.hpc]
    ELSE s

Running(s) == s.hpc \in {"loop", "body"}
Over(s) == s.hpc \in {"returned", "raised", "sent", "abandoned"}

(* ================== server/app.py: get_llama_model ===================== *)
Init ==
    /\ llama_outer_lock = FALSE
    /\ llama_inner_lock = FALSE
    /\ pc = [r \in Requests |-> "acquire_outer"]
    /\ release_outer_lock = [r \in Requests |-> FALSE]
    /\ handler = [r \in Requests |-> NoSession]
    /\ outer_order = <<>>
    /\ inner_order = <<>>
    /\ outer_releases = [r \in Requests |-> 0]
    /\ inner_releases = [r \in Requests |-> 0]
    /\ sess = NoSession
    /\ ctor = [state |-> "none"]
    /\ fwd = [state |-> "none"]
    /\ rep = [state |-> "none"]

\* line 35-36: llama_outer_lock.acquire(); release_outer_lock = True
AcquireOuterNoWait(r) ==
    /\ pc[r] = "acquire_outer"
    /\ llama_outer_lock' = TRUE
    /\ release_outer_lock' = [release_outer_lock EXCEPT ![r] = TRUE]
    /\ pc' = [pc EXCEPT ![r] = "acquire_inner"]
    /\ outer_order' = Append(outer_order, r)
    /\ UNCHANGED <<llama_inner_lock, handler, inner_order, outer_releases,
                   inner_releases, sess, ctor, fwd, rep>>

AcquireOuter(r) ==
    /\ pc[r] = "acquire_outer"
    /\ ~llama_outer_lock
    /\ llama_outer_lock' = TRUE
    /\ release_outer_lock' = [release_outer_lock EXCEPT ![r] = TRUE]
    /\ pc' = [pc EXCEPT ![r] = "acquire_inner"]
    /\ outer_order' = Append(outer_order, r)
    /\ UNCHANGED <<llama_inner_lock, handler, inner_order, outer_releases,
                   inner_releases, sess, ctor, fwd, rep>>

\* line 38: llama_inner_lock.acquire()
AcquireInnerNoWait(r) ==
    /\ pc[r] = "acquire_inner"
    /\ llama_inner_lock' = TRUE
    /\ pc' = [pc EXCEPT ![r] = "release_outer"]
    /\ inner_order' = Append(inner_order, r)
    /\ UNCHANGED <<llama_outer_lock, release_outer_lock, handler,
                   outer_order, outer_releases, inner_releases,
                   sess, ctor, fwd, rep>>

AcquireInner(r) ==
    /\ pc[r] = "acquire_inner"
    /\ ~llama_inner_lock
    /\ llama_inner_lock' = TRUE
    /\ pc' = [pc EXCEPT ![r] = "release_outer"]
    /\ inner_order' = Append(inner_order, r)
    /\ UNCHANGED <<llama_outer_lock, release_outer_lock, handler,
                   outer_order, outer_releases, inner_releases,
                   sess, ctor, fwd, rep>>

\* line 38 raising instead of returning: control goes to the outer finally
\* (line 45) with release_outer_lock still True
AcquireInnerRaises(r) ==
    /\ pc[r] = "acquire_inner"
    /\ pc' = [pc EXCEPT ![r] = "outer_finally"]
    /\ UNCHANGED <<llama_outer_lock, llama_inner_lock, release_outer_lock,
                   handler, outer_order, inner_order, outer_releases,
                   inner_releases, sess, ctor, fwd, rep>>

\* lines 40-42: llama_outer_lock.release(); release_outer_lock = False;
\* yield _llama_model (chat_completions is entered with the model)
ReleaseOuter(r) ==
    /\ pc[r] = "release_outer"
    /\ llama_outer_lock' = FALSE
    /\ outer_releases' = [outer_releases EXCEPT ![r] = @ + 1]
    /\ release_outer_lock' = [release_outer_lock EXCEPT ![r] = FALSE]
    /\ pc' = [pc EXCEPT ![r] = "yield"]
    /\ handler' = [handler EXCEPT ![r].hpc = "entry"]
    /\ UNCHANGED <<llama_inner_lock, outer_order, inner_order,
                   inner_releases, sess, ctor, fwd, rep>>

\* lines 122-135 and, for a streamed request, the return of line 163
ChatCompletions(r) ==
    /\ handler[r].hpc = "entry"
    /\ \E stream \in BOOLEAN, m \in 0..ArbMaxTokens :
        handler' = [handler EXCEPT ![r] = Enter(stream, m, 1)]
    /\ UNCHANGED <<lockVars, histVars, sess, ctor, fwd, rep>>

\* lines 165-172, inside chat_completions
LoopIter(r) ==
    /\ handler[r].hpc = "loop"
    /\ \E t \in Vocab : handler' = [handler EXCEPT ![r] = Leave(IterateOn(@, t))]
    /\ UNCHANGED <<lockVars, histVars, sess, ctor, fwd, rep>>

\* lines 137-161, event_generator, iterated by the response after
\* chat_completions returned it at line 163
StreamIter(r) ==
    /\ handler[r].hpc = "body"
    /\ \E t \in Vocab : handler' = [handler EXCEPT ![r] = Leave(IterateOn(@, t))]
    /\ UNCHANGED <<lockVars, histVars, sess, ctor, fwd, rep>>

\* an exception leaving chat_completions while it uses the model
HandlerRaises(r) ==
    /\ handler[r].hpc = "loop"
    /\ handler' = [handler EXCEPT ![r] = Leave([@ EXCEPT !.hpc = "raised"])]
    /\ UNCHANGED <<lockVars, histVars, sess, ctor, fwd, rep>>

\* the consumer of the streamed response stops pulling from event_generator
Disconnect(r) ==
    /\ handler[r].hpc = "body"
    /\ handler' = [handler EXCEPT ![r] = Leave([@ EXCEPT !.hpc = "abandoned"])]
    /\ UNCHANGED <<lockVars, histVars, sess, ctor, fwd, rep>>

\* line 42 resumed (next, throw or close on the generator)
Resume(r) ==
    /\ pc[r] = "yield"
    /\ pc' = [pc EXCEPT ![r] = "inner_finally"]
    /\ UNCHANGED <<llama_outer_lock, llama_inner_lock, release_outer_lock,
                   handler, outer_order, inner_order, outer_releases,
                   inner_releases, sess, ctor, fwd, rep>>

\* The framework that drives Depends(get_llama_model) (line 125) finishes the
\* generator. After a single-shot return or a raise it does so at once. For a
\* streamed response nothing in the source orders this against the iteration
\* of the EventSourceResponse returned at line 163: the generator is
\* finished either before the body is iterated, or after the body has ended
\* or was abandoned.
DependencyExit(r) ==
    \/ /\ handler[r].hpc = "returned"
       /\ Resume(r)
    \/ /\ handler[r].hpc = "raised"
       /\ Resume(r)
    \/ /\ handler[r].hpc = "body"
       /\ handler[r].steps = 0
       /\ Resume(r)
    \/ /\ handler[r].hpc = "sent"
       /\ Resume(r)
    \/ /\ handler[r].hpc = "abandoned"
       /\ Resume(r)

\* lines 43-44: finally: llama_inner_lock.release()
ReleaseInnerSkipped(r) ==
    /\ pc[r] = "inner_finally"
    /\ pc' = [pc EXCEPT ![r] = "outer_finally"]
    /\ UNCHANGED <<llama_outer_lock, llama_inner_lock, release_outer_lock,
                   handler, histVars, sess, ctor, fwd, rep>>

ReleaseInner(r) ==
    /\ pc[r] = "inner_finally"
    /\ llama_inner_lock' = FALSE
    /\ inner_releases' = [inner_releases EXCEPT ![r] = @ + 1]
    /\ pc' = [pc EXCEPT ![r] = "outer_finally"]
    /\ UNCHANGED <<llama_outer_lock, release_outer_lock, handler,
                   outer_order, inner_order, outer_releases,
                   sess, ctor, fwd, rep>>

\* lines 45-47: finally: if release_outer_lock: llama_outer_lock.release()
OuterFinallyUnconditional(r) ==
    /\ pc[r] = "outer_finally"
    /\ llama_outer_lock' = FALSE
    /\ outer_releases' = [outer_releases EXCEPT ![r] = @ + 1]
    /\ pc' = [pc EXCEPT ![r] = "done"]
    /\ UNCHANGED <<llama_inner_lock, release_outer_lock, handler,
                   outer_order, inner_order, inner_releases,
                   sess, ctor, fwd, rep>>

OuterFinally(r) ==
    /\ pc[r] = "outer_finally"
    /\ IF release_outer_lock[r]
       THEN /\ llama_outer_lock' = FALSE
            /\ outer_releases' = [outer_releases EXCEPT ![r] = @ + 1]
       ELSE UNCHANGED <<llama_outer_lock, outer_releases>>
    /\ pc' = [pc EXCEPT ![r] = "done"]
    /\ UNCHANGED <<llama_inner_lock, release_outer_lock, handler,
                   outer_order, inner_order, inner_releases,
                   sess, ctor, fwd, rep>>

\* the request is over: the response has gone out and the dependency has
\* exited
RequestEnds(r) ==
    /\ pc[r] = "done"
    /\ Over(handler[r])
    /\ handler' = [handler EXCEPT ![r] = [NoSession EXCEPT !.hpc = "closed"]]
    /\ UNCHANGED <<lockVars, histVars, sess, ctor, fwd, rep>>

\* the steps a request takes when nothing fails and nobody gives up
Step(r) ==
    \/ AcquireOuter(r)
    \/ AcquireInner(r)
    \/ ReleaseOuter(r)
    \/ ChatCompletions(r)
    \/ LoopIter(r)
    \/ StreamIter(r)
    \/ DependencyExit(r)
    \/ ReleaseInner(r)
    \/ OuterFinally(r)
    \/ RequestEnds(r)

\* failures and abandonment
Fault(r) ==
    \/ AcquireInnerRaises(r)
    \/ HandlerRaises(r)
    \/ Disconnect(r)

Next ==
    \E r \in Requests : Step(r) \/ Fault(r)

Spec == Init /\ [][Next]_vars

\* every request thread that can take a step eventually takes one; failures
\* and disconnects are never forced
FairSpec == Spec /\ \A r \in Requests : WF_vars(Step(r))

(* ===================== ServeSpec: one session ========================== *)
ArbIdle ==
    /\ llama_outer_lock = FALSE
    /\ llama_inner_lock = FALSE
    /\ pc = [r \in Requests |-> "acquire_outer"]
    /\ release_outer_lock = [r \in Requests |-> FALSE]
    /\ handler = [r \in Requests |-> NoSession]
    /\ outer_order = <<>>
    /\ inner_order = <<>>
    /\ outer_releases = [r \in Requests |-> 0]
    /\ inner_releases = [r \in Requests |-> 0]

\* chat_completions entered with a body and a prompt of a bounded set
ServeInit ==
    /\ ArbIdle
    /\ sess \in {Enter(stream, m, P) :
                    stream \in BOOLEAN, m \in 0..MaxTokens, P \in 1..MaxPrompt}
    /\ ctor = [state |-> "none"]
    /\ fwd = [state |-> "none"]
    /\ rep = [state |-> "none"]

\* one iteration of the consumer loop (lines 138-161 or 166-172)
ServeIter ==
    /\ Running(sess)
    /\ \E t \in Vocab : sess' = IterateOn(sess, t)
    /\ UNCHANGED <<arbVars, ctor, fwd, rep>>

ServeSpec == ServeInit /\ [][ServeIter]_vars

(* ===================== CtorSpec: Llama(args) =========================== *)
CtorInit ==
    /\ ArbIdle
    /\ sess = NoSession
    /\ ctor \in {[state |-> "args",
                  args |-> [hidden_size |-> h, num_attention_heads |-> nh,
                            num_key_value_heads |-> nkv]] :
                    h \in 1..MaxHidden, nh \in 0..MaxHeads, nkv \in 0..MaxHeads}
    /\ fwd = [state |-> "none"]
    /\ rep = [state |-> "none"]

\* load_model, line 58: model = Llama(model_args)
Construct ==
    /\ ctor.state = "args"
    /\ ctor' = LET a == LlamaInit(ctor.args)
               IN  [state |-> IF a.built THEN "built" ELSE "error",
                    args |-> ctor.args, attn |-> a]
    /\ UNCHANGED <<arbVars, sess, fwd, rep>>

CtorSpec == CtorInit /\ [][Construct]_vars

(* ==================== FwdSpec: Llama.__call__ ========================== *)
Slots == {None} \cup {KV(n) : n \in 0..MaxCacheLen}

FwdInit ==
    /\ ArbIdle
    /\ sess = NoSession
    /\ ctor = [state |-> "none"]
    /\ fwd \in {[state |-> "call", T |-> T, cache |-> c] :
                    T \in 1..MaxPrompt, c \in [Layers -> Slots]}
    /\ rep = [state |-> "none"]

\* model(x, cache=cache) with x of T positions
Forward ==
    /\ fwd.state = "call"
    /\ fwd' = LET out == LlamaCall(fwd.T, fwd.cache)
              IN  [state |-> IF out.ok THEN "returned" ELSE "raised",
                   T |-> fwd.T, cache |-> fwd.cache, out |-> out.cache]
    /\ UNCHANGED <<arbVars, sess, ctor, rep>>

FwdSpec == FwdInit /\ [][Forward]_vars

(* ================= RepeatSpec: the head expansion ====================== *)
\* a tensor: its shape and its elements in row-major order
RECURSIVE Prod(_)
Prod(sh) == IF sh = <<>> THEN 1 ELSE Head(sh) * Prod(Tail(sh))

Stride(sh, i) == Prod(SubSeq(sh, i + 1, Len(sh)))

RECURSIVE Ravel(_, _)
\* the row-major offset of the 0-based index idx in a tensor of shape sh
Ravel(idx, sh) ==
    IF idx = <<>> THEN 0
    ELSE Head(idx) * Prod(Tail(sh)) + Ravel(Tail(idx), Tail(sh))

Unravel(off, sh) == [i \in 1..Len(sh) |-> (off \div Stride(sh, i)) % sh[i]]

At(x, idx) == x.data[Ravel(idx, x.shape) + 1]

\* mx.expand_dims(a, ax)
ExpandDims(x, ax) ==
    [shape |-> SubSeq(x.shape, 1, ax) \o <<1>> \o
               SubSeq(x.shape, ax + 1, Len(x.shape)),
     data |-> x.data]

\* mx.concatenate([x] * n, axis=ax)
Concatenate(x, n, ax) ==
    LET sh == [x.shape EXCEPT ![ax + 1] = @ * n]
    IN  [shape |-> sh,
         data |-> [i \in 1..Prod(sh) |->
                     LET idx == Unravel(i - 1, sh)
                         src == [idx EXCEPT ![ax + 1] = @ % x.shape[ax + 1]]
                     IN  x.data[Ravel(src, x.shape) + 1]]]

\* x.reshape([B, H, L, -1])
Reshape(x, lead) ==
    [shape |-> lead \o <<Prod(x.shape) \div Prod(lead)>>, data |-> x.data]

\* the copies laid along the head axis itself
RepeatTiled(a, repeats, H) ==
    Reshape(Concatenate(a, repeats, 1), <<a.shape[1], H, a.shape[3]>>)

\* Attention.__call__.repeat, lines 98-100, on a of shape [B, K, L, D]
Repeat(a, repeats, H) ==
    Reshape(Concatenate(ExpandDims(a, 2), repeats, 2),
            <<a.shape[1], H, a.shape[3]>>)

\* k after line 95: shape [1, K, L, D], every element its own value
Keys(K, L, D) == [shape |-> <<1, K, L, D>>, data |-> [i \in 1..(K * L * D) |-> i]]

RepeatInit ==
    /\ ArbIdle
    /\ sess = NoSession
    /\ ctor = [state |-> "none"]
    /\ fwd = [state |-> "none"]
    /\ rep \in {[state |-> "input", a |-> Keys(K, L, D), repeats |-> n,
                 H |-> K * n] :
                    K \in 1..MaxKVHeads, n \in 1..MaxRepeats,
                    L \in 1..MaxPrompt, D \in 1..MaxHeadDim}

\* line 102: k, v = map(repeat, (k, v))
Expand ==
    /\ rep.state = "input"
    /\ rep' = [state |-> "done", a |-> rep.a, repeats |-> rep.repeats,
               H |-> rep.H, out |-> Repeat(rep.a, rep.repeats, rep.H)]
    /\ UNCHANGED <<arbVars, sess, ctor, fwd>>

RepeatSpec == RepeatInit /\ [][Expand]_vars

(* ============================== claims ================================= *)
InProtected(r) == pc[r] \in {"release_outer", "yield", "inner_finally"}
Entered(r) == \E i \in 1..Len(inner_order) : inner_order[i] = r
AcquireFailed(r) == pc[r] \in {"outer_finally", "done"} /\ ~Entered(r)
Completed(r) == pc[r] = "done" /\ handler[r].hpc \in {"none", "closed"}

\* C1: at most one request is inside the protected section (has acquired
\* llama_inner_lock and not yet released it) in every reachable state.
C1_MutualExclusion ==
    Cardinality({r \in Requests : InProtected(r)}) <= 1

\* one request uses the model while another waits at the inner lock
C1_Witness ==
    \E r1, r2 \in Requests :
        /\ pc[r1] = "yield"
        /\ Running(handler[r1])
        /\ pc[r2] = "acquire_inner"

\* a step of generate() for request r: an iteration of its consumer loop,
\* which goes on or ends the loop (the other ways out of the loop, an
\* exception in the handler and a disconnect, make no forward pass)
ForwardPass(r) ==
    /\ Running(handler[r])
    /\ handler'[r] # handler[r]
    /\ handler'[r].hpc \in {"loop", "body", "returned", "sent"}

\* C2: every forward pass made for a request, in the single-shot and in the
\* streamed path, happens while that request holds llama_inner_lock.
C2_LockHeldWhileGenerating ==
    [][\A r \in Requests : ForwardPass(r) => InProtected(r)]_vars

\* C3: a request that has left get_llama_model has released the outer lock
\* exactly once and the inner lock exactly if it acquired it; once every
\* request has left, both locks are free.
C3_LocksReleased ==
    /\ \A r \in Requests :
        pc[r] = "done" =>
            /\ outer_releases[r] = 1
            /\ inner_releases[r] = (IF Entered(r) THEN 1 ELSE 0)
    /\ (\A r \in Requests : pc[r] = "done") =>
            (~llama_outer_lock /\ ~llama_inner_lock)

\* all requests have left, one after failing to acquire the inner lock and
\* one after an exception in the handler
C3_Witness ==
    /\ \A r \in Requests : pc[r] = "done"
    /\ \E r \in Requests : ~Entered(r)
    /\ \E r \in Requests : handler[r].hpc = "raised"

\* C4: the requests enter the protected section in the order in which they
\* acquired the outer lock, and at most one request, the one admitted last,
\* waits for the inner lock.
C4_AdmissionOrder ==
    /\ Cardinality({r \in Requests : pc[r] = "acquire_inner"}) <= 1
    /\ \A r \in Requests :
        pc[r] = "acquire_inner" => outer_order[Len(outer_order)] = r
    /\ inner_order = SelectSeq(outer_order, Entered)

\* every request has entered, and not in the order of the request numbers
C4_Witness ==
    /\ Len(inner_order) = NumRequests
    /\ inner_order[1] # 1

\* C5: eventually every request has entered the protected section, unless
\* its acquisition of the inner lock raised, and has completed (both are
\* stable, so this is each request eventually entering and completing).
C5_Liveness ==
    <>(\A r \in Requests :
        /\ Entered(r) \/ AcquireFailed(r)
        /\ Completed(r))

\* every request has entered and completed
C5_Witness ==
    \A r \in Requests : Entered(r) /\ Completed(r)

\* C6: after n >= 1 forward passes of a session over a prompt of length P
\* every layer's cache has sequence length P + n - 1, and before the first
\* pass there is no cache.
C6_CacheGrowth ==
    /\ sess.steps = 0 => sess.cache = <<>>
    /\ (sess.steps > 0 /\ sess.hpc # "raised") =>
            \A e \in Layers :
                sess.cache[e] = KV(Len(sess.prompt) + sess.steps - 1)

\* prompt of length 3, then three single-token steps: cache length 6
C6_Witness ==
    /\ Len(sess.prompt) = 3
    /\ sess.steps = 4
    /\ \A e \in Layers : sess.cache[e].len = 6

\* C7: the response carries at most max_tokens tokens, never the
\* end-of-sequence token, and the loop is over once generate() has produced
\* the end-of-sequence token.
C7_Cutoff ==
    /\ Len(sess.tokens) <= sess.max_tokens
    /\ \A i \in 1..Len(sess.tokens) : sess.tokens[i] # eos_token_id
    /\ (sess.steps > 0 /\ sess.y = <<eos_token_id>>) => ~Running(sess)

\* a streamed response cut at max_tokens = 2 tokens
C7_Witness ==
    /\ sess.hpc = "sent"
    /\ sess.max_tokens = 2
    /\ Len(sess.tokens) = 2
    /\ sess.steps = 3

\* the head counts do not divide evenly (Python's % on non-zero divisors)
Inconsistent(args) ==
    \/ /\ args.num_attention_heads # 0
       /\ args.hidden_size % args.num_attention_heads # 0
    \/ /\ args.num_key_value_heads # 0
       /\ args.num_attention_heads % args.num_key_value_heads # 0

\* C8: Llama(args) fails for every ModelArgs with
\* hidden_size % num_attention_heads != 0 or
\* num_attention_heads % num_key_value_heads != 0.
C8_InconsistentConfigRejected ==
    (ctor.state \in {"built", "error"} /\ Inconsistent(ctor.args))
        => ctor.state = "error"

\* two layers of the cache hold different sequence lengths
Diverges(c) ==
    \E e1, e2 \in Layers :
        c[e1].some /\ c[e2].some /\ c[e1].len # c[e2].len

\* C9: a forward call handed a cache whose per-layer sequence lengths
\* differ raises instead of returning logits and an updated cache.
C9_DivergentCacheFails ==
    (fwd.state \in {"returned", "raised"} /\ Diverges(fwd.cache))
        => fwd.state = "raised"

\* C10: the expanded tensor has H heads; its head h is the original head
\* h \div repeats, element for element; with repeats = 1 it is the input.
C10_BlockRepeat ==
    rep.state = "done" =>
        /\ rep.out.shape = [rep.a.shape EXCEPT ![2] = rep.H]
        /\ \A h \in 0..(rep.H - 1), l \in 0..(rep.a.shape[3] - 1),
              d \in 0..(rep.a.shape[4] - 1) :
                At(rep.out, <<0, h, l, d>>)
                    = At(rep.a, <<0, h \div rep.repeats, l, d>>)
        /\ rep.repeats = 1 => rep.out = rep.a

\* two key/value heads expanded twice: block and interleaved order differ
C10_Witness ==
    /\ rep.state = "done"
    /\ rep.a.shape[2] = 2
    /\ rep.repeats = 2
    /\ rep.a.shape[3] >= 2
====
